---- MODULE Spec2Model ----
(***************************************************************************)
(* A model of the spotify Web API client: client construction (New and its *)
(* options), the retry transport around HTTP 429, the error decoder, the   *)
(* library batch calls and the calls that carry a request body.            *)
(*                                                                         *)
(* Text that the code inspects or builds (header values, IDs, bodies,      *)
(* error messages) is a sequence of one-character strings, so that         *)
(* parsing, formatting and encoding are computed and not assumed.          *)
(* Time is counted in whole seconds.                                       *)
(***************************************************************************)
EXTENDS Integers, Sequences, FiniteSets, TLC

VARIABLES
    httpTransport, \* Transport of the *http.Client handed to New
    client,        \* the Client built by New (NoClient before)
    pc,            \* where the current call stands
    call,          \* the endpoint call in progress and the request it built
    ctxDone,       \* the caller's context has been cancelled
    reqBody,       \* req.Body: the stream the transport reads the body from
    wire,          \* the requests the base transport has put on the wire, in order
    resp,          \* the response (or transport error) of the latest attempt
    sleepDur,      \* argument of the time.Sleep in progress, in seconds
    slept,         \* seconds that have passed since that time.Sleep began
    result,        \* what the call returned to its caller
    enc,           \* the encoder goroutine of SetPlaylistImage
    pipe,          \* the io.Pipe between that goroutine and the request body
    page,          \* the Page the caller of the paging calls holds
    library,       \* the mock remote: the IDs saved in the user's library
    lastAdded,     \* the IDs of the latest AddTracksToLibrary that succeeded
    other          \* a second call in progress on the same Client, parked

vars == <<httpTransport, client, pc, call, ctxDone, reqBody, wire,
          resp, sleepDur, slept, result, enc, pipe, page, library,
          lastAdded, other>>

\* what belongs to the goroutine of SetPlaylistImage
imgVars == <<enc, pipe>>

\* what no step of one call on the real remote touches
aux == <<page, library, lastAdded, other>>

-----------------------------------------------------------------------------
(* Bounds of the model *)

MaxAttempts == 3     \* attempts of one call the model follows
MaxSleep == 7        \* seconds of one sleep the model follows
MaxOpts == 2         \* options passed to New

-----------------------------------------------------------------------------
(* Text helpers *)

Digits == <<"0", "1", "2", "3", "4", "5", "6", "7", "8", "9">>

IsDigit(c) == \E i \in 1..10 : Digits[i] = c

DigitVal(c) == (CHOOSE i \in 1..10 : Digits[i] = c) - 1

RECURSIVE Itoa(_)
\* fmt's %d of a non-negative int
Itoa(n) == IF n < 10 THEN <<Digits[n + 1]>>
           ELSE Itoa(n \div 10) \o <<Digits[(n % 10) + 1]>>

RECURSIVE Concat(_)
Concat(parts) == IF parts = <<>> THEN <<>> ELSE Head(parts) \o Concat(Tail(parts))

\* strings.Contains
Contains(s, sub) ==
    \E i \in 0..(Len(s) - Len(sub)) : SubSeq(s, i + 1, i + Len(sub)) = sub

RECURSIVE Join(_, _)
\* strings.Join
Join(strs, sep) ==
    IF strs = <<>> THEN <<>>
    ELSE IF Len(strs) = 1 THEN strs[1]
    ELSE strs[1] \o sep \o Join(Tail(strs), sep)

RECURSIVE Split(_, _)
\* strings.Split on a one-character separator
Split(s, sep) ==
    IF \A i \in 1..Len(s) : s[i] # sep THEN <<s>>
    ELSE LET k == CHOOSE i \in 1..Len(s) :
                      s[i] = sep /\ \A j \in 1..(i - 1) : s[j] # sep
         IN  <<SubSeq(s, 1, k - 1)>> \o Split(SubSeq(s, k + 1, Len(s)), sep)

-----------------------------------------------------------------------------
(* Constants of the program *)

StatusTooManyRequests == 429

defaultRetryDuration == 5

LibraryMaxIDs == 50

BaseURL == "https://api.spotify.com/v1/"

MaxInt32 == 2147483647

MinInt32 == (0 - 2147483647) - 1

-----------------------------------------------------------------------------
(* retryDuration: the wait computed from a 429 response *)

RECURSIVE ParseDigits(_, _)
\* The digit loop of strconv.ParseInt(raw, 10, 32), on the digits after the sign.
\* acc is minus the magnitude read so far, so that 2^31 (the magnitude of the
\* smallest int32) is representable; "syntax" and "range" are the two errors.
ParseDigits(s, acc) ==
    IF s = <<>> THEN [err |-> "", neg |-> acc]
    ELSE IF ~IsDigit(Head(s)) THEN [err |-> "syntax", neg |-> 0]
    ELSE LET d == DigitVal(Head(s))
         IN  IF acc < (MinInt32 + d) \div 10 + (IF (MinInt32 + d) % 10 = 0 THEN 0 ELSE 1)
             THEN [err |-> "range", neg |-> 0]
             ELSE ParseDigits(Tail(s), acc * 10 - d)

\* strconv.ParseInt(raw, 10, 32): an optional sign, then decimal digits, and
\* the value has to fit a signed 32-bit integer.
ParseInt32(raw) ==
    IF raw = <<>> THEN [err |-> "syntax", val |-> 0]
    ELSE LET signed == Head(raw) \in {"+", "-"}
             body == IF signed THEN Tail(raw) ELSE raw
             p == ParseDigits(body, 0)
         IN  IF body = <<>> THEN [err |-> "syntax", val |-> 0]
             ELSE IF p.err # "" THEN [err |-> p.err, val |-> 0]
             ELSE IF Head(raw) = "-" THEN [err |-> "", val |-> p.neg]
             ELSE IF p.neg = MinInt32 THEN [err |-> "range", val |-> 0]
             ELSE [err |-> "", val |-> 0 - p.neg]

\* A wrong retryDuration: the header is ignored.
retryDuration_ignoresHeader(header) == defaultRetryDuration

\* retryDuration(resp), in seconds; header is resp.Header.Get("Retry-After"),
\* which is empty when the header is absent. time.Duration(seconds) *
\* time.Second cannot overflow: seconds fits 32 bits, a Duration has 64.
retryDuration(header) ==
    IF header = <<>> THEN defaultRetryDuration
    ELSE LET p == ParseInt32(header)
         IN  IF p.err # "" THEN defaultRetryDuration
             ELSE p.val

\* The Retry-After values a server is made to answer with.
RetryAfterValues ==
    { <<>>, <<"0">>, <<"3">>, <<"6">>, <<"-", "2">>, <<"+", "4">>,
      <<"s", "o", "o", "n">>,
      <<"2", "1", "4", "7", "4", "8", "3", "6", "4", "7">>,
      <<"2", "1", "4", "7", "4", "8", "3", "6", "4", "8">> }

-----------------------------------------------------------------------------
(* The error decoder *)

\* StatusCode.Type() == StatusTypeSuccess: the 2xx class
IsSuccess(status) == status \div 100 = 2

\* http.StatusText for the status codes the server of the model answers with
StatusText(status) ==
    CASE status = 200 -> <<"O", "K">>
      [] status = 403 -> <<"F", "o", "r", "b", "i", "d", "d", "e", "n">>
      [] status = 429 -> <<"T", "o", "o", " ", "M", "a", "n", "y", " ", "R", "e", "q", "u",
                         "e", "s", "t", "s">>
      [] status = 500 -> <<"I", "n", "t", "e", "r", "n", "a", "l", " ", "S", "e", "r", "v",
                         "e", "r", " ", "E", "r", "r", "o", "r">>
      [] OTHER -> <<>>

\* A response body is its bytes (raw) and the document encoding/json reads
\* from them: "syntax" when the bytes are no JSON value, else the value.
\* A member of an object is "absent" or a value.
EmptyBody == [raw |-> <<>>, doc |-> [t |-> "syntax"]]

HTMLBody == [raw |-> <<"<", "h", "t", "m", "l", ">">>, doc |-> [t |-> "syntax"]]

NullBody == [raw |-> <<"n", "u", "l", "l">>, doc |-> [t |-> "null"]]

ArrayBody == [raw |-> <<"[", "]">>, doc |-> [t |-> "array"]]

ObjectBody == [raw |-> <<"{", "}">>, doc |-> [t |-> "object", error |-> [t |-> "absent"]]]

\* {"error":{"status":400,"message":"bad"}}
EnvelopeBody ==
    [raw |-> <<"{", "\"", "e", "r", "r", "o", "r", "\"", ":", "{", "\"", "s", "t",
            "a", "t", "u", "s", "\"", ":", "4", "0", "0", ",", "\"", "m", "e",
            "s", "s", "a", "g", "e", "\"", ":", "\"", "b", "a", "d", "\"", "}",
            "}">>,
     doc |-> [t |-> "object",
              error |-> [t |-> "object",
                         message |-> [t |-> "string", v |-> <<"b", "a", "d">>],
                         status |-> [t |-> "number", v |-> 400]]]]

\* {"error":{"status":403,"message":""}}
EmptyMessageBody ==
    [raw |-> <<"{", "\"", "e", "r", "r", "o", "r", "\"", ":", "{", "\"", "s", "t",
            "a", "t", "u", "s", "\"", ":", "4", "0", "3", ",", "\"", "m", "e",
            "s", "s", "a", "g", "e", "\"", ":", "\"", "\"", "}", "}">>,
     doc |-> [t |-> "object",
              error |-> [t |-> "object",
                         message |-> [t |-> "string", v |-> <<>>],
                         status |-> [t |-> "number", v |-> 403]]]]

\* {"error":{"message":"gone"}}
NoStatusBody ==
    [raw |-> <<"{", "\"", "e", "r", "r", "o", "r", "\"", ":", "{", "\"", "m", "e",
            "s", "s", "a", "g", "e", "\"", ":", "\"", "g", "o", "n", "e", "\"",
            "}", "}">>,
     doc |-> [t |-> "object",
              error |-> [t |-> "object",
                         message |-> [t |-> "string", v |-> <<"g", "o", "n", "e">>],
                         status |-> [t |-> "absent"]]]]

\* {"error":"x"}
StringErrorBody ==
    [raw |-> <<"{", "\"", "e", "r", "r", "o", "r", "\"", ":", "\"", "x", "\"",
            "}">>,
     doc |-> [t |-> "object", error |-> [t |-> "string"]]]

\* {"error":{"message":7}}
NumberMessageBody ==
    [raw |-> <<"{", "\"", "e", "r", "r", "o", "r", "\"", ":", "{", "\"", "m", "e",
            "s", "s", "a", "g", "e", "\"", ":", "7", "}", "}">>,
     doc |-> [t |-> "object",
              error |-> [t |-> "object",
                         message |-> [t |-> "number", v |-> 7],
                         status |-> [t |-> "absent"]]]]

ErrorBodies ==
    { EmptyBody, HTMLBody, NullBody, ArrayBody, ObjectBody, EnvelopeBody,
      EmptyMessageBody, NoStatusBody, StringErrorBody, NumberMessageBody }

\* json.NewDecoder(buf).Decode(&e) for e of type struct{ E Error `json:"error"` }:
\* null and absent members leave the zero value, a member of the wrong JSON
\* type is an error.
DecodeError(doc) ==
    LET zero == [ok |-> TRUE, Message |-> <<>>, Status |-> 0]
        fail == [ok |-> FALSE, Message |-> <<>>, Status |-> 0]
    IN  CASE doc.t = "syntax" -> fail
          [] doc.t = "null" -> zero
          [] doc.t = "object" ->
                (CASE doc.error.t \in {"absent", "null"} -> zero
                   [] doc.error.t = "object" ->
                         LET m == doc.error.message
                             st == doc.error.status
                         IN  IF m.t \notin {"absent", "null", "string"}
                                \/ st.t \notin {"absent", "null", "number"}
                             THEN fail
                             ELSE [ok |-> TRUE,
                                   Message |-> IF m.t = "string" THEN m.v ELSE <<>>,
                                   Status |-> IF st.t = "number" THEN st.v ELSE 0]
                   [] OTHER -> fail)
          [] OTHER -> fail

NoError == [type |-> "nil", msg |-> <<>>, status |-> 0]

\* The error values: a spotify Error (type "Error", with Message and Status),
\* an error made by fmt.Errorf or errors.New (type "errorString", a message
\* and nothing else), an error of the transport or of reading the body.
SpotifyError(message, status) == [type |-> "Error", msg |-> message, status |-> status]

ErrorString(message) == [type |-> "errorString", msg |-> message, status |-> 0]

TransportError(message) == [type |-> "transport", msg |-> message, status |-> 0]

\* fmt.Errorf("spotify: HTTP %d: %s (body empty)", ...)
BodyEmptyMessage(status) ==
    Concat(<< <<"s", "p", "o", "t", "i", "f", "y", ":", " ", "H", "T", "T", "P",
              " ">>,
              Itoa(status), <<":", " ">>, StatusText(status),
              <<" ", "(", "b", "o", "d", "y", " ", "e", "m", "p", "t", "y", ")">> >>)

\* fmt.Errorf("spotify: couldn't decode error: (%d) [%s]", ...)
CouldntDecodeMessage(raw) ==
    Concat(<< <<"s", "p", "o", "t", "i", "f", "y", ":", " ", "c", "o", "u", "l",
              "d", "n", "'", "t", " ", "d", "e", "c", "o", "d", "e", " ", "e",
              "r", "r", "o", "r", ":", " ", "(">>,
              Itoa(Len(raw)), <<")", " ", "[">>, raw, <<"]">> >>)

\* fmt.Sprintf("spotify: unexpected HTTP %d: %s (empty error)", ...)
EmptyErrorMessage(status) ==
    Concat(<< <<"s", "p", "o", "t", "i", "f", "y", ":", " ", "u", "n", "e", "x",
              "p", "e", "c", "t", "e", "d", " ", "H", "T", "T", "P", " ">>,
              Itoa(status), <<":", " ">>, StatusText(status),
              <<" ", "(", "e", "m", "p", "t", "y", " ", "e", "r", "r", "o", "r",
              ")">> >>)

\* A wrong decoder: the envelope's message is returned as it came.
ProcessResponse_keepsEmptyMessage(r) ==
    IF IsSuccess(r.status) THEN NoError
    ELSE IF r.readErr THEN TransportError(<<"E", "O", "F">>)
    ELSE IF Len(r.body.raw) = 0 THEN ErrorString(BodyEmptyMessage(r.status))
    ELSE LET e == DecodeError(r.body.doc)
         IN  IF ~e.ok THEN ErrorString(CouldntDecodeMessage(r.body.raw))
             ELSE SpotifyError(e.Message, e.Status)

\* A wrong decoder: the message for an empty body leaves the reason phrase out.
ProcessResponse_noReason(r) ==
    IF IsSuccess(r.status) THEN NoError
    ELSE IF r.readErr THEN TransportError(<<"E", "O", "F">>)
    ELSE IF Len(r.body.raw) = 0
         THEN ErrorString(Concat(<<<<"H", "T", "T", "P", " ">>, Itoa(r.status)>>))
    ELSE LET e == DecodeError(r.body.doc)
         IN  IF ~e.ok THEN ErrorString(CouldntDecodeMessage(r.body.raw))
             ELSE SpotifyError(IF e.Message = <<>> THEN EmptyErrorMessage(r.status)
                                                  ELSE e.Message, e.Status)

\* A wrong decoder: every failure is made a spotify Error from the envelope.
ProcessResponse_alwaysError(r) ==
    IF IsSuccess(r.status) THEN NoError
    ELSE IF r.readErr THEN TransportError(<<"E", "O", "F">>)
    ELSE LET e == DecodeError(r.body.doc)
         IN  SpotifyError(IF e.Message = <<>> THEN EmptyErrorMessage(r.status)
                                              ELSE e.Message, e.Status)

\* errorDecoder.ProcessResponse: the error it returns for response r, NoError
\* for a 2xx response. r.readErr says that reading the body fails.
ProcessResponse(r) ==
    IF IsSuccess(r.status) THEN NoError
    ELSE IF r.readErr THEN TransportError(<<"E", "O", "F">>)
    ELSE IF Len(r.body.raw) = 0 THEN ErrorString(BodyEmptyMessage(r.status))
    ELSE LET e == DecodeError(r.body.doc)
         IN  IF ~e.ok THEN ErrorString(CouldntDecodeMessage(r.body.raw))
             ELSE SpotifyError(IF e.Message = <<>> THEN EmptyErrorMessage(r.status)
                                                  ELSE e.Message, e.Status)

-----------------------------------------------------------------------------
(* Client construction *)

\* withRetry records that WithRetry was among the options given to New.
NoClient == [built |-> FALSE, url |-> "", acceptLanguage |-> "", withRetry |-> FALSE]

\* A transport is the chain of RoundTrippers from the outermost one inwards:
\* "retry" is a retryTransport, "oauth2" an *oauth2.Transport, "custom" some
\* other RoundTripper, "default" http.DefaultTransport; the empty chain is a
\* nil Transport.
CallerTransports == { <<"oauth2">>, <<"custom">>, <<>> }

ClientOptions ==
    { [opt |-> "WithRetry", arg |-> ""],
      [opt |-> "WithBaseURL", arg |-> "https://staging.example/v1/"],
      [opt |-> "WithAcceptLanguage", arg |-> "en"] }

OptionLists == UNION { [1..n -> ClientOptions] : n \in 0..MaxOpts }

\* A wrong WithRetry: the transport is left as it was.
WithRetry_noWrap(transport) == transport

\* WithRetry: the transport it stores in the base client
WithRetry(transport) ==
    <<"retry">> \o (IF transport = <<>> THEN <<"default">> ELSE transport)

\* One ClientOption applied to the client under construction; st is the pair
\* of the Client's settings and its base client's Transport.
ApplyOption(st, o) ==
    CASE o.opt = "WithRetry" -> [st EXCEPT !.transport = WithRetry(@)]
      [] o.opt = "WithBaseURL" -> [st EXCEPT !.c.url = o.arg]
      [] o.opt = "WithAcceptLanguage" -> [st EXCEPT !.c.acceptLanguage = o.arg]

RECURSIVE ApplyOptions(_, _)
ApplyOptions(st, opts) ==
    IF opts = <<>> THEN st
    ELSE ApplyOptions(ApplyOption(st, Head(opts)), Tail(opts))

\* retryTransport is somewhere in the chain: a 429 never leaves RoundTrip
HasRetry(transport) == \E i \in 1..Len(transport) : transport[i] = "retry"

\* the chain ends in a token-based transport
TokenBased(transport) == \E i \in 1..Len(transport) : transport[i] = "oauth2"

\* the type assertion Transport.(*oauth2.Transport) of Client.Token
IsOAuth2Transport(transport) == transport # <<>> /\ Head(transport) = "oauth2"

-----------------------------------------------------------------------------
(* Requests *)

NoCall == [op |-> "", ids |-> <<>>, method |-> "", path |-> <<>>,
           query |-> <<>>, contentType |-> "", absolute |-> <<>>]

NoBody == [kind |-> "none", data |-> <<>>, pos |-> 0]

NoResp == [status |-> 0, header |-> <<>>, body |-> EmptyBody, readErr |-> FALSE]

NoResult == [returned |-> FALSE, err |-> NoError, value |-> ""]

\* no encoder goroutine, no pipe
NoEnc == [pc |-> "none", img |-> <<>>, readErr |-> FALSE, rest |-> <<>>,
          written |-> <<>>, wfail |-> FALSE, err |-> "nil"]

NoPipe == [open |-> FALSE, buf |-> <<>>, rclosed |-> FALSE, wclosed |-> FALSE,
           werr |-> "nil"]

\* the mock remote's library: the saved IDs of each kind
NoLibrary == [tracks |-> {}, albums |-> {}]

\* the second call, when none is in progress
NoOther ==
    [pc |-> "idle", call |-> NoCall, ctxDone |-> FALSE, reqBody |-> NoBody,
     wire |-> <<>>, resp |-> NoResp, sleepDur |-> 0, slept |-> 0,
     result |-> NoResult]

IDPool == << <<"a", "1">>, <<"B">>, <<"z", "9", "k">> >>

\* how many IDs the batch calls are tried with: around both ends of 1..50
IDCounts == {0, 1, LibraryMaxIDs, LibraryMaxIDs + 1}

IDsOf(n) == [i \in 1..n |-> IDPool[(i % 3) + 1]]

IDLists == { IDsOf(n) : n \in IDCounts }

\* the ID lists GetArtists is tried with
ArtistIDLists == { <<IDPool[1]>>, <<IDPool[1], IDPool[2]>> }

\* toStringSlice: each ID as a string
toStringSlice(ids) == [i \in 1..Len(ids) |-> ids[i]]

\* A wrong count check: 50 IDs are refused.
ValidCount_offByOne(l) == ~(l = 0 \/ l >= LibraryMaxIDs)

\* the check `l == 0 || l > 50` of libraryContains and modifyLibrary, negated
ValidCount(l) == ~(l = 0 \/ l > LibraryMaxIDs)

-----------------------------------------------------------------------------
(* Request bodies *)

Base64Alphabet ==
    <<"A", "B", "C", "D", "E", "F", "G", "H", "I", "J", "K", "L", "M",
      "N", "O", "P", "Q", "R", "S", "T", "U", "V", "W", "X", "Y", "Z",
      "a", "b", "c", "d", "e", "f", "g", "h", "i", "j", "k", "l", "m",
      "n", "o", "p", "q", "r", "s", "t", "u", "v", "w", "x", "y", "z",
      "0", "1", "2", "3", "4", "5", "6", "7", "8", "9", "+", "/">>

RECURSIVE Base64Encode(_)
\* base64.StdEncoding of a sequence of bytes, padding included
Base64Encode(bytes) ==
    LET sym(n) == Base64Alphabet[n + 1]
    IN  IF bytes = <<>> THEN <<>>
        ELSE IF Len(bytes) = 1
             THEN << sym(bytes[1] \div 4), sym((bytes[1] % 4) * 16), "=", "=" >>
        ELSE IF Len(bytes) = 2
             THEN << sym(bytes[1] \div 4),
                     sym((bytes[1] % 4) * 16 + bytes[2] \div 16),
                     sym((bytes[2] % 16) * 4), "=" >>
        ELSE << sym(bytes[1] \div 4),
                sym((bytes[1] % 4) * 16 + bytes[2] \div 16),
                sym((bytes[2] % 16) * 4 + bytes[3] \div 64),
                sym(bytes[3] % 64) >> \o Base64Encode(SubSeq(bytes, 4, Len(bytes)))

\* the images SetPlaylistImage is tried with, as bytes
Images == { <<255>>, <<77, 97>>, <<77, 97, 110, 0>> }

\* Write of the base64 encoder: the text of the complete 3-byte groups goes
\* to the underlying writer, the bytes left over are kept
EncoderWrite(bytes) ==
    LET full == Len(bytes) - (Len(bytes) % 3)
    IN  [out |-> Base64Encode(SubSeq(bytes, 1, full)),
         rest |-> SubSeq(bytes, full + 1, Len(bytes))]

\* A wrong Close: the bytes left over are dropped.
EncoderClose_noFlush(rest) == <<>>

\* Close of the base64 encoder: the bytes left over go to the underlying
\* writer as one padded group
EncoderClose(rest) == Base64Encode(rest)

\* json.Marshal of a PlaylistReorderOptions: range_length and snapshot_id are
\* omitempty
MarshalReorder(opt) ==
    Concat(<< <<"{", "\"", "r", "a", "n", "g", "e", "_", "s", "t", "a", "r", "t",
              "\"", ":">>,
              Itoa(opt.RangeStart),
              IF opt.RangeLength = 0 THEN <<>>
              ELSE <<",", "\"", "r", "a", "n", "g", "e", "_", "l", "e", "n", "g", "t",
                   "h", "\"", ":">> \o Itoa(opt.RangeLength),
              <<",", "\"", "i", "n", "s", "e", "r", "t", "_", "b", "e", "f", "o",
              "r", "e", "\"", ":">>,
              Itoa(opt.InsertBefore),
              IF opt.SnapshotID = <<>> THEN <<>>
              ELSE <<",", "\"", "s", "n", "a", "p", "s", "h", "o", "t", "_", "i", "d",
                   "\"", ":", "\"">> \o opt.SnapshotID \o <<"\"">>,
              <<"}">> >>)

ReorderOptions ==
    { [RangeStart |-> 0, RangeLength |-> 0, InsertBefore |-> 10, SnapshotID |-> <<>>],
      [RangeStart |-> 8, RangeLength |-> 2, InsertBefore |-> 0, SnapshotID |-> <<"s", "1">>] }

\* the bytes of body b that have not been read yet
Unread(b) == SubSeq(b.data, b.pos + 1, Len(b.data))

-----------------------------------------------------------------------------
(* The bodies of 2xx responses and what the calls decode from them *)

\* a member of a JSON object; "absent" when the object has no such key
Member(doc, key) == IF key \in DOMAIN doc THEN doc[key] ELSE [t |-> "absent"]

\* the elements of a JSON array
Elems(doc) == IF "elems" \in DOMAIN doc THEN doc.elems ELSE <<>>

\* the JSON text of a list of booleans
MarshalBools(bs) ==
    <<"[">> \o Join([i \in 1..Len(bs) |-> IF bs[i] THEN <<"t", "r", "u", "e">>
                                          ELSE <<"f", "a", "l", "s", "e">>], <<",">>)
            \o <<"]">>

\* [true,false,...]: the answer of a .../contains endpoint
BoolsBody(bs) ==
    [raw |-> MarshalBools(bs),
     doc |-> [t |-> "array", elems |-> [i \in 1..Len(bs) |-> [t |-> "bool", v |-> bs[i]]]]]

\* [true,"x"]
MixedArrayBody ==
    [raw |-> <<"[", "t", "r", "u", "e", ",", "\"", "x", "\"", "]">>,
     doc |-> [t |-> "array", elems |-> <<[t |-> "bool", v |-> TRUE], [t |-> "string", v |-> <<"x">>]>>]]

\* {"id":"..."}: an artist, an album or a track as the remote sends it
ItemDoc(id) == [t |-> "object", id |-> [t |-> "string", v |-> id]]

ItemText(id) == <<"{", "\"", "i", "d", "\"", ":", "\"">> \o id \o <<"\"", "}">>

\* {"artists":[...]}: found[i] says whether the remote sends the artist of
\* ids[i] or null in its place
ArtistsBody(ids, found) ==
    [raw |-> <<"{", "\"", "a", "r", "t", "i", "s", "t", "s", "\"", ":", "[">>
             \o Join([i \in 1..Len(ids) |-> IF found[i] THEN ItemText(ids[i])
                                            ELSE <<"n", "u", "l", "l">>], <<",">>)
             \o <<"]", "}">>,
     doc |-> [t |-> "object", error |-> [t |-> "absent"],
              artists |-> [t |-> "array",
                           elems |-> [i \in 1..Len(ids) |->
                                        IF found[i] THEN ItemDoc(ids[i]) ELSE [t |-> "null"]]]]]

\* {"albums":null}
NullAlbumsBody ==
    [raw |-> <<"{", "\"", "a", "l", "b", "u", "m", "s", "\"", ":", "n", "u", "l", "l", "}">>,
     doc |-> [t |-> "object", error |-> [t |-> "absent"], albums |-> [t |-> "null"]]]

\* {"albums":"x"}
StringAlbumsBody ==
    [raw |-> <<"{", "\"", "a", "l", "b", "u", "m", "s", "\"", ":", "\"", "x", "\"", "}">>,
     doc |-> [t |-> "object", error |-> [t |-> "absent"],
              albums |-> [t |-> "string", v |-> <<"x">>]]]

\* the error of encoding/json when a body does not fit the result type
JSONError == [type |-> "json", msg |-> <<"j", "s", "o", "n">>, status |-> 0]

\* the run-time panic of a nil pointer dereference
NilDereference == [type |-> "panic", msg |-> <<"n", "i", "l">>, status |-> 0]

\* json into []bool: null leaves the nil slice; a null element leaves false
DecodeBools(doc) ==
    CASE doc.t = "null" -> [ok |-> TRUE, v |-> <<>>]
      [] doc.t = "array" ->
            IF \A i \in 1..Len(Elems(doc)) : Elems(doc)[i].t \in {"bool", "null"}
            THEN [ok |-> TRUE,
                  v |-> [i \in 1..Len(Elems(doc)) |->
                           IF Elems(doc)[i].t = "bool" THEN Elems(doc)[i].v ELSE FALSE]]
            ELSE [ok |-> FALSE, v |-> <<>>]
      [] OTHER -> [ok |-> FALSE, v |-> <<>>]

\* a nil *FullArtist
NilArtist == [nil |-> TRUE, ID |-> <<>>]

\* json into one *FullArtist: null leaves the nil pointer
DecodeArtist(e) ==
    [nil |-> e.t = "null",
     ID |-> IF e.t = "object" /\ Member(e, "id").t = "string" THEN e.id.v ELSE <<>>]

\* A wrong decoder: an artist the remote did not find is left out.
DecodeArtists_dropsNull(doc) ==
    IF doc.t = "object" /\ Member(doc, "artists").t = "array"
    THEN [ok |-> TRUE,
          v |-> LET es == Elems(doc.artists)
                    keep == SelectSeq(es, LAMBDA e : e.t = "object")
                IN  [i \in 1..Len(keep) |-> DecodeArtist(keep[i])]]
    ELSE [ok |-> doc.t \in {"null", "object"}, v |-> <<>>]

\* json into struct{ Artists []*FullArtist }: the key is matched without
\* regard to case; null and a missing key leave the nil slice
DecodeArtists(doc) ==
    CASE doc.t = "null" -> [ok |-> TRUE, v |-> <<>>]
      [] doc.t = "object" ->
            LET a == Member(doc, "artists")
            IN  CASE a.t \in {"absent", "null"} -> [ok |-> TRUE, v |-> <<>>]
                  [] a.t = "array" ->
                        IF \A i \in 1..Len(Elems(a)) :
                              /\ Elems(a)[i].t \in {"object", "null"}
                              /\ Member(Elems(a)[i], "id").t \in {"absent", "null", "string"}
                        THEN [ok |-> TRUE,
                              v |-> [i \in 1..Len(Elems(a)) |-> DecodeArtist(Elems(a)[i])]]
                        ELSE [ok |-> FALSE, v |-> <<>>]
                  [] OTHER -> [ok |-> FALSE, v |-> <<>>]
      [] OTHER -> [ok |-> FALSE, v |-> <<>>]

\* A Page: the IDs of its items in order, the endpoint of the next page
\* (empty when absent) and the paging numbers.
NoPage == [held |-> FALSE, Items |-> <<>>, Next |-> <<>>, Offset |-> 0, Limit |-> 0, Total |-> 0]

\* the JSON document of a page object
PageDoc(ids, next, offset, limit, total) ==
    [t |-> "object", error |-> [t |-> "absent"],
     items |-> [t |-> "array", elems |-> [i \in 1..Len(ids) |-> ItemDoc(ids[i])]],
     next |-> IF next = <<>> THEN [t |-> "null"] ELSE [t |-> "string", v |-> next],
     offset |-> [t |-> "number", v |-> offset],
     limit |-> [t |-> "number", v |-> limit],
     total |-> [t |-> "number", v |-> total]]

\* the JSON text of a page object
PageText(ids, next, offset, limit, total) ==
    Concat(<< <<"{", "\"", "i", "t", "e", "m", "s", "\"", ":", "[">>,
              Join([i \in 1..Len(ids) |-> ItemText(ids[i])], <<",">>),
              <<"]", ",", "\"", "n", "e", "x", "t", "\"", ":">>,
              IF next = <<>> THEN <<"n", "u", "l", "l">> ELSE <<"\"">> \o next \o <<"\"">>,
              <<",", "\"", "o", "f", "f", "s", "e", "t", "\"", ":">>, Itoa(offset),
              <<",", "\"", "l", "i", "m", "i", "t", "\"", ":">>, Itoa(limit),
              <<",", "\"", "t", "o", "t", "a", "l", "\"", ":">>, Itoa(total),
              <<"}">> >>)

PageBody(ids, next, offset, limit, total) ==
    [raw |-> PageText(ids, next, offset, limit, total),
     doc |-> PageDoc(ids, next, offset, limit, total)]

\* {"albums":{...}}: the answer of browse/new-releases
AlbumsBody(ids, next, offset, limit, total) ==
    [raw |-> <<"{", "\"", "a", "l", "b", "u", "m", "s", "\"", ":">>
             \o PageText(ids, next, offset, limit, total) \o <<"}">>,
     doc |-> [t |-> "object", error |-> [t |-> "absent"],
              albums |-> PageDoc(ids, next, offset, limit, total)]]

\* the number a JSON member holds, 0 when it is null or missing
NumberOf(m) == IF m.t = "number" THEN m.v ELSE 0

\* A wrong decoder: the items of the page are not decoded.
DecodePage_dropsItems(doc) ==
    [ok |-> doc.t \in {"null", "object"},
     v |-> [held |-> TRUE, Items |-> <<>>,
            Next |-> IF doc.t = "object" /\ Member(doc, "next").t = "string"
                     THEN doc.next.v ELSE <<>>,
            Offset |-> IF doc.t = "object" THEN NumberOf(Member(doc, "offset")) ELSE 0,
            Limit |-> IF doc.t = "object" THEN NumberOf(Member(doc, "limit")) ELSE 0,
            Total |-> IF doc.t = "object" THEN NumberOf(Member(doc, "total")) ELSE 0]]

\* json into a page struct: null and missing members leave the zero value
DecodePage(doc) ==
    CASE doc.t = "null" -> [ok |-> TRUE, v |-> [NoPage EXCEPT !.held = TRUE]]
      [] doc.t = "object" ->
            LET its == Member(doc, "items")
                nx == Member(doc, "next")
            IN  IF /\ its.t \in {"absent", "null", "array"}
                   /\ \A i \in 1..Len(Elems(its)) :
                         /\ Elems(its)[i].t = "object"
                         /\ Member(Elems(its)[i], "id").t = "string"
                   /\ nx.t \in {"absent", "null", "string"}
                   /\ \A k \in {"offset", "limit", "total"} :
                         Member(doc, k).t \in {"absent", "null", "number"}
                THEN [ok |-> TRUE,
                      v |-> [held |-> TRUE,
                             Items |-> [i \in 1..Len(Elems(its)) |-> Elems(its)[i].id.v],
                             Next |-> IF nx.t = "string" THEN nx.v ELSE <<>>,
                             Offset |-> NumberOf(Member(doc, "offset")),
                             Limit |-> NumberOf(Member(doc, "limit")),
                             Total |-> NumberOf(Member(doc, "total"))]]
                ELSE [ok |-> FALSE, v |-> NoPage]
      [] OTHER -> [ok |-> FALSE, v |-> NoPage]

\* json into struct{ SnapshotID string `json:"snapshot_id"` }
DecodeSnapshot(doc) ==
    CASE doc.t = "null" -> [ok |-> TRUE, v |-> <<>>]
      [] doc.t = "object" ->
            LET m == Member(doc, "snapshot_id")
            IN  IF m.t \in {"absent", "null", "string"}
                THEN [ok |-> TRUE, v |-> IF m.t = "string" THEN m.v ELSE <<>>]
                ELSE [ok |-> FALSE, v |-> <<>>]
      [] OTHER -> [ok |-> FALSE, v |-> <<>>]

\* json into map[string]*json.RawMessage: the entry of key "albums", a nil
\* pointer when the key is missing or its value is null
DecodeObjmap(doc) ==
    CASE doc.t = "null" -> [ok |-> TRUE, albums |-> [t |-> "absent"]]
      [] doc.t = "object" -> [ok |-> TRUE, albums |-> Member(doc, "albums")]
      [] OTHER -> [ok |-> FALSE, albums |-> [t |-> "absent"]]

\* what a call returns for a decoded value, or the decoding error
Returned(d) ==
    IF d.ok THEN [returned |-> TRUE, err |-> NoError, value |-> d.v]
    ELSE [returned |-> TRUE, err |-> JSONError, value |-> ""]

\* NewReleases after Send: json.Unmarshal(*objmap["albums"], &result)
NewReleasesResult(doc) ==
    LET m == DecodeObjmap(doc)
    IN  IF ~m.ok THEN Returned([ok |-> FALSE, v |-> ""])
        ELSE IF m.albums.t \in {"absent", "null"}
        THEN [returned |-> FALSE, err |-> NilDereference, value |-> ""]
        ELSE Returned(DecodePage(m.albums))

\* What call c returns for the response r that Send got: the error of the
\* error decoder, else what the call decodes from the body.
CallResult(c, r) ==
    IF ProcessResponse(r) # NoError
    THEN [returned |-> TRUE, err |-> ProcessResponse(r), value |-> ""]
    ELSE CASE c.op \in {"UserHasTracks", "UserHasAlbums"} -> Returned(DecodeBools(r.body.doc))
           [] c.op = "GetArtists" -> Returned(DecodeArtists(r.body.doc))
           [] c.op = "NewReleases" -> NewReleasesResult(r.body.doc)
           [] c.op \in {"GetPlaylistTracks", "NextPage"} -> Returned(DecodePage(r.body.doc))
           [] c.op = "ReorderPlaylistTracks" -> Returned(DecodeSnapshot(r.body.doc))
           [] OTHER -> [returned |-> TRUE, err |-> NoError, value |-> "ok"]

-----------------------------------------------------------------------------
(* What the server, or the network, answers to one attempt *)

OKBody == [raw |-> <<"{", "}">>, doc |-> [t |-> "object", error |-> [t |-> "absent"]]]

\* the bodies the server of the model sends with status 200
SuccessBodies ==
    { OKBody, NullBody, MixedArrayBody, NullAlbumsBody, StringAlbumsBody,
      BoolsBody(<<TRUE>>), BoolsBody([i \in 1..LibraryMaxIDs |-> i % 2 = 0]),
      ArtistsBody(<<IDPool[1]>>, <<TRUE>>),
      ArtistsBody(<<IDPool[1], IDPool[2]>>, <<TRUE, FALSE>>),
      AlbumsBody(<<IDPool[1]>>, <<>>, 0, 1, 1) }

ServerResponses ==
    { [status |-> 200, header |-> <<>>, body |-> b, readErr |-> FALSE] : b \in SuccessBodies }
    \cup { [status |-> StatusTooManyRequests, header |-> h, body |-> EmptyBody,
             readErr |-> FALSE] : h \in RetryAfterValues }
    \cup { [status |-> StatusTooManyRequests, header |-> <<>>, body |-> EnvelopeBody,
             readErr |-> FALSE] }
    \cup { [status |-> st, header |-> <<>>, body |-> b, readErr |-> FALSE] :
              st \in {403, 500}, b \in ErrorBodies }
    \cup { [status |-> 500, header |-> <<>>, body |-> EmptyBody, readErr |-> TRUE] }

-----------------------------------------------------------------------------
(* The state machine *)

\* no call is in progress
Quiet ==
    /\ pc = "idle"
    /\ call = NoCall
    /\ ctxDone = FALSE
    /\ reqBody = NoBody
    /\ wire = <<>>
    /\ resp = NoResp
    /\ sleepDur = 0
    /\ slept = 0
    /\ result = NoResult
    /\ enc = NoEnc
    /\ pipe = NoPipe
    /\ page = NoPage
    /\ library = NoLibrary
    /\ lastAdded = <<>>
    /\ other = NoOther

Init ==
    /\ httpTransport \in CallerTransports
    /\ client = NoClient
    /\ Quiet

\* New(httpClient, opts...): the Client with the default URL and the error
\* decoder, then every option applied in order. The base client is the
\* caller's *http.Client, so WithRetry stores its transport there.
Built(transport, opts) ==
    ApplyOptions([c |-> [built |-> TRUE, url |-> BaseURL,
                         acceptLanguage |-> "",
                         withRetry |-> \E i \in 1..Len(opts) :
                                          opts[i].opt = "WithRetry"],
                  transport |-> transport], opts)

New(opts) ==
    /\ ~client.built
    /\ client' = Built(httpTransport, opts).c
    /\ httpTransport' = Built(httpTransport, opts).transport
    /\ UNCHANGED <<pc, call, ctxDone, reqBody, wire, resp, sleepDur,
                   slept, result, imgVars, aux>>

\* errors.New(ErrContainsCount)
ErrContainsCount ==
    <<"s", "p", "o", "t", "i", "f", "y", ":", " ", "s", "u", "p", "p",
      "o", "r", "t", "s", " ", "1", " ", "t", "o", " ", "5", "0", " ",
      "I", "D", "s", " ", "p", "e", "r", " ", "c", "a", "l", "l">>

\* errors.New(ErrModifyCount)
ErrModifyCount ==
    <<"s", "p", "o", "t", "i", "f", "y", ":", " ", "t", "h", "i", "s",
      " ", "c", "a", "l", "l", " ", "s", "u", "p", "p", "o", "r", "t",
      "s", " ", "1", " ", "t", "o", " ", "5", "0", " ", "I", "D", "s",
      " ", "p", "e", "r", " ", "c", "a", "l", "l">>

\* errors.New("spotify: client not backed by oauth2 transport")
ErrNotOAuth2 ==
    <<"s", "p", "o", "t", "i", "f", "y", ":", " ", "c", "l", "i", "e",
      "n", "t", " ", "n", "o", "t", " ", "b", "a", "c", "k", "e", "d",
      " ", "b", "y", " ", "o", "a", "u", "t", "h", "2", " ", "t", "r",
      "a", "n", "s", "p", "o", "r", "t">>

\* What Client.Token returns; sourceOK says whether transport.Source.Token()
\* succeeds.
TokenResult(transport, sourceOK) ==
    IF ~IsOAuth2Transport(transport)
    THEN [returned |-> TRUE, value |-> "",
          err |-> ErrorString(ErrNotOAuth2)]
    ELSE IF ~sourceOK
    THEN [returned |-> TRUE, value |-> "", err |-> TransportError(<<"t", "o", "k", "e", "n">>)]
    ELSE [returned |-> TRUE, value |-> "token", err |-> NoError]

\* Client.Token
Token(sourceOK) ==
    /\ client.built
    /\ pc = "idle"
    /\ pc' = "done"
    /\ call' = [NoCall EXCEPT !.op = "Token"]
    /\ result' = TokenResult(httpTransport, sourceOK)
    /\ UNCHANGED <<httpTransport, client, ctxDone, reqBody, wire, resp,
                   sleepDur, slept, imgVars, aux>>

\* The request is built and handed to Send.
StartRequest(c, body) ==
    /\ pc' = "roundtrip"
    /\ call' = c
    /\ reqBody' = body
    /\ UNCHANGED <<httpTransport, client, ctxDone, wire, resp, sleepDur,
                   slept, result, aux>>

\* The call fails before any request is built.
FailLocally(op, ids, message) ==
    /\ pc' = "done"
    /\ call' = [NoCall EXCEPT !.op = op, !.ids = ids]
    /\ result' = [returned |-> TRUE, value |-> "", err |-> ErrorString(message)]
    /\ UNCHANGED <<httpTransport, client, ctxDone, reqBody, wire, resp,
                   sleepDur, slept, aux>>

\* Client.libraryContains, called by UserHasTracks and UserHasAlbums
libraryContains(op, typ, ids) ==
    /\ client.built
    /\ pc = "idle"
    /\ IF ~ValidCount(Len(ids))
       THEN FailLocally(op, ids, ErrContainsCount)
       ELSE StartRequest([op |-> op, ids |-> ids, method |-> "GET",
                          path |-> <<"me", typ, "contains">>,
                          query |-> Join(toStringSlice(ids), <<",">>),
                          contentType |-> "", absolute |-> <<>>], NoBody)
    /\ UNCHANGED imgVars

\* Client.modifyLibrary, called by the four Add... and Remove... calls
modifyLibrary(op, typ, add, ids) ==
    /\ client.built
    /\ pc = "idle"
    /\ IF ~ValidCount(Len(ids))
       THEN FailLocally(op, ids, ErrModifyCount)
       ELSE StartRequest([op |-> op, ids |-> ids,
                          method |-> IF add THEN "PUT" ELSE "DELETE",
                          path |-> <<"me", typ>>,
                          query |-> Join(toStringSlice(ids), <<",">>),
                          contentType |-> "", absolute |-> <<>>], NoBody)
    /\ UNCHANGED imgVars

\* A wrong wrapper: the tracks are looked up among the albums.
UserHasTracks_albums(ids) == libraryContains("UserHasTracks", "albums", ids)

UserHasTracks(ids) == libraryContains("UserHasTracks", "tracks", ids)

UserHasAlbums(ids) == libraryContains("UserHasAlbums", "albums", ids)

AddTracksToLibrary(ids) == modifyLibrary("AddTracksToLibrary", "tracks", TRUE, ids)

RemoveTracksFromLibrary(ids) == modifyLibrary("RemoveTracksFromLibrary", "tracks", FALSE, ids)

AddAlbumsToLibrary(ids) == modifyLibrary("AddAlbumsToLibrary", "albums", TRUE, ids)

RemoveAlbumsFromLibrary(ids) == modifyLibrary("RemoveAlbumsFromLibrary", "albums", FALSE, ids)

\* Client.SetPlaylistImage: the body is the read end of a pipe that the
\* encoder fills with the base64 text of the image.
\* readErr says that img.Read fails, after it has delivered the bytes img,
\* where it would report the end. The model follows one goroutine at a time.
SetPlaylistImage(img, readErr) ==
    /\ client.built
    /\ pc = "idle"
    /\ enc.pc \in {"none", "done"}
    /\ pipe' = [NoPipe EXCEPT !.open = TRUE]
    /\ enc' = [NoEnc EXCEPT !.pc = "copy", !.img = img, !.readErr = readErr]
    /\ StartRequest([op |-> "SetPlaylistImage", ids |-> <<>>, method |-> "PUT",
                     path |-> <<"playlists", "p1", "images">>, query |-> <<>>,
                     contentType |-> "image/jpeg", absolute |-> <<>>],
                    [kind |-> "pipe", data |-> <<>>, pos |-> 0])

\* the goroutine: io.Copy(enc, img) reads the image and hands it to the
\* encoder, whose Write blocks in the pipe until the text is read
EncCopy ==
    /\ enc.pc = "copy"
    /\ LET w == EncoderWrite(enc.img)
       IN  IF w.out = <<>>
           THEN /\ enc' = [enc EXCEPT !.pc = "close", !.rest = w.rest,
                                      !.err = IF enc.readErr THEN "read" ELSE "nil"]
                /\ UNCHANGED pipe
           ELSE IF pipe.rclosed
           THEN /\ enc' = [enc EXCEPT !.pc = "close", !.wfail = TRUE, !.err = "pipe"]
                /\ UNCHANGED pipe
           ELSE /\ enc' = [enc EXCEPT !.pc = "copying", !.rest = w.rest]
                /\ pipe' = [pipe EXCEPT !.buf = w.out]
    /\ UNCHANGED <<httpTransport, client, pc, call, ctxDone, reqBody, wire,
                   resp, sleepDur, slept, result, aux>>

\* the Write of io.Copy returns: the text has been read, or the read end
\* has been closed (io.ErrClosedPipe); then the image is at its end
EncCopied ==
    /\ enc.pc = "copying"
    /\ pipe.buf = <<>> \/ pipe.rclosed
    /\ IF pipe.buf = <<>>
       THEN enc' = [enc EXCEPT !.pc = "close",
                               !.written = EncoderWrite(enc.img).out,
                               !.err = IF enc.readErr THEN "read" ELSE "nil"]
       ELSE enc' = [enc EXCEPT !.pc = "close", !.wfail = TRUE, !.err = "pipe"]
    /\ pipe' = [pipe EXCEPT !.buf = <<>>]
    /\ UNCHANGED <<httpTransport, client, pc, call, ctxDone, reqBody, wire,
                   resp, sleepDur, slept, result, aux>>

\* enc.Close(): the encoder writes what it kept, unless a Write has failed
EncClose ==
    /\ enc.pc = "close"
    /\ IF enc.wfail \/ EncoderClose(enc.rest) = <<>>
       THEN /\ enc' = [enc EXCEPT !.pc = "closew"]
            /\ UNCHANGED pipe
       ELSE IF pipe.rclosed
       THEN /\ enc' = [enc EXCEPT !.pc = "closew", !.wfail = TRUE]
            /\ UNCHANGED pipe
       ELSE /\ enc' = [enc EXCEPT !.pc = "closing"]
            /\ pipe' = [pipe EXCEPT !.buf = EncoderClose(enc.rest)]
    /\ UNCHANGED <<httpTransport, client, pc, call, ctxDone, reqBody, wire,
                   resp, sleepDur, slept, result, aux>>

\* the Write of enc.Close() returns; its error is dropped
EncClosed ==
    /\ enc.pc = "closing"
    /\ pipe.buf = <<>> \/ pipe.rclosed
    /\ IF pipe.buf = <<>>
       THEN enc' = [enc EXCEPT !.pc = "closew",
                               !.written = enc.written \o EncoderClose(enc.rest)]
       ELSE enc' = [enc EXCEPT !.pc = "closew", !.wfail = TRUE]
    /\ pipe' = [pipe EXCEPT !.buf = <<>>]
    /\ UNCHANGED <<httpTransport, client, pc, call, ctxDone, reqBody, wire,
                   resp, sleepDur, slept, result, aux>>

\* w.CloseWithError(err): the goroutine ends
EncCloseWithError ==
    /\ enc.pc = "closew"
    /\ enc' = [enc EXCEPT !.pc = "done"]
    /\ pipe' = [pipe EXCEPT !.wclosed = TRUE, !.werr = enc.err]
    /\ UNCHANGED <<httpTransport, client, pc, call, ctxDone, reqBody, wire,
                   resp, sleepDur, slept, result, aux>>

\* The transport, in a round trip, reads what a Write holds in the pipe.
PipeRead ==
    /\ pc = "roundtrip"
    /\ ~ctxDone
    /\ pipe.open
    /\ ~pipe.rclosed
    /\ pipe.buf # <<>>
    /\ reqBody' = [reqBody EXCEPT !.data = reqBody.data \o pipe.buf]
    /\ pipe' = [pipe EXCEPT !.buf = <<>>]
    /\ UNCHANGED <<httpTransport, client, pc, call, ctxDone, wire, resp,
                   sleepDur, slept, result, enc, aux>>

\* Client.ReorderPlaylistTracks: the body is the JSON text of the options.
ReorderPlaylistTracks(opt) ==
    /\ client.built
    /\ pc = "idle"
    /\ StartRequest([op |-> "ReorderPlaylistTracks", ids |-> <<>>, method |-> "PUT",
                     path |-> <<"playlists", "p1", "tracks">>, query |-> <<>>,
                     contentType |-> "application/json", absolute |-> <<>>],
                    [kind |-> "json", data |-> MarshalReorder(opt), pos |-> 0])
    /\ UNCHANGED imgVars

\* Client.GetArtists: no check of the number of IDs
GetArtists(ids) ==
    /\ client.built
    /\ pc = "idle"
    /\ StartRequest([op |-> "GetArtists", ids |-> ids, method |-> "GET",
                     path |-> <<"artists">>,
                     query |-> Join(toStringSlice(ids), <<",">>),
                     contentType |-> "", absolute |-> <<>>], NoBody)
    /\ UNCHANGED imgVars

\* Client.NewReleases
NewReleases ==
    /\ client.built
    /\ pc = "idle"
    /\ StartRequest([op |-> "NewReleases", ids |-> <<>>, method |-> "GET",
                     path |-> <<"browse", "new-releases">>, query |-> <<>>,
                     contentType |-> "", absolute |-> <<>>], NoBody)
    /\ UNCHANGED imgVars

-----------------------------------------------------------------------------
(* Send: the round trips, the wait after a 429, the error decoder *)

\* the request as the base transport puts it on the wire at this attempt:
\* the body is what is still unread in req.Body
OnWire == [method |-> call.method, url |-> client.url, path |-> call.path,
           query |-> call.query, contentType |-> call.contentType,
           acceptLanguage |-> client.acceptLanguage, body |-> Unread(reqBody),
           absolute |-> call.absolute]

\* A wrong loop: a server error is retried like a 429.
Retries_serverErrors(transport, r) ==
    HasRetry(transport) /\ r.status \in {StatusTooManyRequests, 500}

\* the condition of retryTransport.RoundTrip's loop, for a client whose
\* transport chain holds a retryTransport: err == nil && 429
Retries(transport, r) == HasRetry(transport) /\ r.status = StatusTooManyRequests

\* Send returns the transport's error.
ReturnError(e) ==
    /\ pc' = "done"
    /\ result' = [returned |-> TRUE, value |-> "", err |-> e]
    /\ UNCHANGED <<sleepDur, slept>>

\* One r.Base.RoundTrip(req) and what RoundTrip does with its outcome; without
\* a retryTransport, the one round trip of the base client. A cancelled
\* context makes the base transport fail before it sends anything. A
\* RoundTripper closes the request body, whatever the outcome.
AttemptWith(responses) ==
    /\ pc = "roundtrip"
    /\ Len(wire) < MaxAttempts
    /\ IF ctxDone
       THEN /\ ReturnError(TransportError(<<"c", "o", "n", "t", "e", "x", "t", " ", "c", "a", "n", "c", "e",
                                        "l", "e", "d">>))
            /\ UNCHANGED <<wire, reqBody, resp>>
       ELSE /\ wire' = Append(wire, OnWire)
            /\ reqBody' = [reqBody EXCEPT !.pos = Len(reqBody.data)]
            /\ \/ /\ ReturnError(TransportError(<<"E", "O", "F">>))
                  /\ UNCHANGED resp
               \/ \E r \in responses :
                     /\ resp' = r
                     /\ IF Retries(httpTransport, r)
                        THEN /\ pc' = "sleep"
                             /\ sleepDur' = retryDuration(r.header)
                             /\ slept' = 0
                             /\ UNCHANGED result
                        ELSE /\ pc' = "decode"
                             /\ UNCHANGED <<sleepDur, slept, result>>
    /\ pipe' = IF pipe.open THEN [pipe EXCEPT !.rclosed = TRUE] ELSE pipe
    /\ UNCHANGED <<httpTransport, client, call, ctxDone, enc>>

\* an attempt that the server of the model answers
Attempt == AttemptWith(ServerResponses) /\ UNCHANGED aux

\* A second passes while time.Sleep is in progress.
Tick ==
    /\ pc = "sleep"
    /\ slept < MaxSleep
    /\ slept' = slept + 1
    /\ UNCHANGED <<httpTransport, client, pc, call, ctxDone, reqBody,
                   wire, resp, sleepDur, result, imgVars, aux>>

\* A wrong Sleep: the Client lets one call wait at a time.
SleepOver_oneAtATime(d, passed) == passed >= d /\ other.pc # "sleep"

\* time.Sleep(d) may return once d has passed; at once when d <= 0
SleepOver(d, passed) == passed >= d

\* time.Sleep returns and the loop goes round (`continue`): the response and
\* the duration of this iteration are gone.
Wake ==
    /\ pc = "sleep"
    /\ SleepOver(sleepDur, slept)
    /\ pc' = "roundtrip"
    /\ resp' = NoResp
    /\ sleepDur' = 0
    /\ slept' = 0
    /\ UNCHANGED <<httpTransport, client, call, ctxDone, reqBody, wire, result,
                   imgVars, aux>>

\* The caller cancels the context of the call, or its deadline passes.
Cancel ==
    /\ pc \in {"roundtrip", "sleep"}
    /\ ~ctxDone
    /\ ctxDone' = TRUE
    /\ UNCHANGED <<httpTransport, client, pc, call, reqBody, wire, resp, sleepDur,
                   slept, result, imgVars, aux>>

\* The response that left the transport goes through the error decoder, and
\* Send returns.
DeliverCall ==
    /\ pc = "decode"
    /\ result' = CallResult(call, resp)
    /\ pc' = IF result'.returned THEN "done" ELSE "crashed"
    /\ UNCHANGED <<httpTransport, client, call, ctxDone, reqBody, wire,
                   resp, sleepDur, slept, imgVars>>

Deliver == DeliverCall /\ UNCHANGED aux

\* The caller has its result; the client is ready for the next call.
Finish ==
    /\ pc = "done"
    /\ pc' = "idle"
    /\ call' = NoCall
    /\ ctxDone' = FALSE
    /\ reqBody' = NoBody
    /\ wire' = <<>>
    /\ resp' = NoResp
    /\ sleepDur' = 0
    /\ slept' = 0
    /\ result' = NoResult
    /\ enc' = IF enc.pc = "done" THEN NoEnc ELSE enc
    /\ pipe' = IF enc.pc = "done" THEN NoPipe ELSE pipe
    /\ UNCHANGED <<httpTransport, client, aux>>

Next ==
    \/ \E opts \in OptionLists : New(opts)
    \/ \E sourceOK \in BOOLEAN : Token(sourceOK)
    \/ \E ids \in IDLists : UserHasTracks(ids)
    \/ \E ids \in IDLists : UserHasAlbums(ids)
    \/ \E ids \in IDLists : AddTracksToLibrary(ids)
    \/ \E ids \in IDLists : RemoveTracksFromLibrary(ids)
    \/ \E ids \in IDLists : AddAlbumsToLibrary(ids)
    \/ \E ids \in IDLists : RemoveAlbumsFromLibrary(ids)
    \/ \E opt \in ReorderOptions : ReorderPlaylistTracks(opt)
    \/ \E ids \in ArtistIDLists : GetArtists(ids)
    \/ NewReleases
    \/ Attempt
    \/ Tick
    \/ Wake
    \/ Cancel
    \/ Deliver
    \/ Finish

Spec == Init /\ [][Next]_vars

-----------------------------------------------------------------------------
(* The image upload: a Client built by New, its SetPlaylistImage calls and
   their goroutine *)

\* the option lists the Clients of the smaller specifications are built with
FewOptionLists == { <<>>, <<[opt |-> "WithRetry", arg |-> ""]>> }

\* New(httpClient, opts...) has returned, for a token-based httpClient
InitBuilt ==
    /\ \E opts \in FewOptionLists :
          /\ client = Built(<<"oauth2">>, opts).c
          /\ httpTransport = Built(<<"oauth2">>, opts).transport
    /\ Quiet

\* a step of the goroutine
Encoder == EncCopy \/ EncCopied \/ EncClose \/ EncClosed \/ EncCloseWithError

NextImage ==
    \/ \E img \in Images, readErr \in BOOLEAN : SetPlaylistImage(img, readErr)
    \/ EncCopy
    \/ EncCopied
    \/ EncClose
    \/ EncClosed
    \/ EncCloseWithError
    \/ PipeRead
    \/ Attempt
    \/ Tick
    \/ Wake
    \/ Cancel
    \/ Deliver
    \/ Finish

\* A goroutine that can run does run, and a round trip in progress reads
\* the body or comes to its end.
SpecImage ==
    /\ InitBuilt
    /\ [][NextImage]_vars
    /\ WF_vars(Encoder)
    /\ WF_vars(PipeRead \/ Attempt)

-----------------------------------------------------------------------------
(* A mock remote: a library of saved IDs and one playlist served in pages *)

\* the tracks of the playlist the mock remote serves
PlaylistTracks ==
    << <<"t", "1">>, <<"t", "2">>, <<"t", "3">>, <<"t", "4">>, <<"t", "5">> >>

\* the values of the Limit option GetPlaylistTracks is tried with
PageLimits == {2, 5}

\* the value of parameter name in the query string q, or default
QueryParam(q, name, default) ==
    LET kvs == Split(q, "&")
        hits == SelectSeq(kvs, LAMBDA kv : Len(Split(kv, "=")) = 2 /\ Split(kv, "=")[1] = name)
    IN  IF hits = <<>> THEN default ELSE ParseInt32(Split(hits[1], "=")[2]).val

\* the endpoint of the page that starts at offset
NextURL(offset, limit) ==
    Concat(<< <<"/", "v", "1", "/", "p", "l", "a", "y", "l", "i", "s", "t", "s", "/",
               "p", "1", "/", "t", "r", "a", "c", "k", "s", "?",
               "o", "f", "f", "s", "e", "t", "=">>, Itoa(offset),
              <<"&", "l", "i", "m", "i", "t", "=">>, Itoa(limit) >>)

\* the page of the playlist that query string q asks for
MockPage(q) ==
    LET offset == QueryParam(q, <<"o", "f", "f", "s", "e", "t">>, 0)
        limit == QueryParam(q, <<"l", "i", "m", "i", "t">>, 20)
        total == Len(PlaylistTracks)
        last == IF offset + limit < total THEN offset + limit ELSE total
    IN  PageBody(SubSeq(PlaylistTracks, offset + 1, last),
                 IF last < total THEN NextURL(last, limit) ELSE <<>>,
                 offset, limit, total)

\* library requests: PUT or DELETE me/<typ>, GET me/<typ>/contains
IsLibraryRequest(req) == Len(req.path) = 2 /\ req.path[1] = "me"

IsContainsRequest(req) ==
    Len(req.path) = 3 /\ req.path[1] = "me" /\ req.path[3] = "contains"

\* what the mock remote answers to request req when its library is lib
MockAnswer(req, lib) ==
    LET ok(b) == [status |-> 200, header |-> <<>>, body |-> b, readErr |-> FALSE]
    IN  CASE req.absolute # <<>> /\ Len(Split(req.absolute, "?")) = 2 ->
                ok(MockPage(Split(req.absolute, "?")[2]))
          [] req.absolute = <<>> /\ req.path = <<"playlists", "p1", "tracks">> ->
                ok(MockPage(req.query))
          [] req.absolute = <<>> /\ IsContainsRequest(req) ->
                ok(BoolsBody([i \in 1..Len(Split(req.query, ",")) |->
                                Split(req.query, ",")[i] \in lib[req.path[2]]]))
          [] req.absolute = <<>> /\ IsLibraryRequest(req) -> ok(EmptyBody)
          [] OTHER -> [status |-> 403, header |-> <<>>, body |-> EnvelopeBody,
                       readErr |-> FALSE]

\* the library of the mock remote after it has served request req
MockEffect(req, lib) ==
    LET ids == { Split(req.query, ",")[i] : i \in 1..Len(Split(req.query, ",")) }
    IN  IF req.absolute = <<>> /\ IsLibraryRequest(req) /\ req.method \in {"PUT", "DELETE"}
        THEN [lib EXCEPT ![req.path[2]] = IF req.method = "PUT" THEN @ \cup ids ELSE @ \ ids]
        ELSE lib

\* the mock remote limits the rate: 429 with Retry-After: 0
RateLimited ==
    [status |-> StatusTooManyRequests, header |-> <<"0">>, body |-> EmptyBody,
     readErr |-> FALSE]

\* the sentinel error ErrNoMorePages
ErrNoMorePages ==
    <<"s", "p", "o", "t", "i", "f", "y", ":", " ", "n", "o", " ", "m", "o", "r",
      "e", " ", "p", "a", "g", "e", "s">>

\* Client.GetPlaylistTracks with the Limit option
GetPlaylistTracks(limit) ==
    /\ client.built
    /\ pc = "idle"
    /\ StartRequest([op |-> "GetPlaylistTracks", ids |-> <<>>, method |-> "GET",
                     path |-> <<"playlists", "p1", "tracks">>,
                     query |-> <<"l", "i", "m", "i", "t", "=">> \o Itoa(limit),
                     contentType |-> "", absolute |-> <<>>], NoBody)
    /\ UNCHANGED imgVars

\* A wrong check: a page always counts as having a next page.
NoMorePages_never(p) == FALSE

\* the page has no next endpoint
NoMorePages(p) == p.Next = <<>>

\* Client.NextPage on the Page the caller holds: ErrNoMorePages without a
\* request when the next endpoint is absent, else a GET of that endpoint
NextPage ==
    /\ client.built
    /\ pc = "idle"
    /\ page.held
    /\ IF NoMorePages(page)
       THEN FailLocally("NextPage", <<>>, ErrNoMorePages)
       ELSE StartRequest([op |-> "NextPage", ids |-> <<>>, method |-> "GET",
                          path |-> <<>>, query |-> <<>>, contentType |-> "",
                          absolute |-> page.Next], NoBody)
    /\ UNCHANGED imgVars

\* an attempt that the mock remote answers, or refuses with 429
MockAttempt ==
    /\ AttemptWith({MockAnswer(OnWire, library), RateLimited})
    /\ library' = IF wire' # wire /\ resp' # RateLimited /\ pc' # "done"
                  THEN MockEffect(OnWire, library) ELSE library
    /\ lastAdded' = IF library' # library /\ OnWire.method = "DELETE"
                    THEN <<>> ELSE lastAdded
    /\ UNCHANGED <<page, other>>

\* Send returns; a paging call that succeeded leaves its Page with the
\* caller, in the place of the Page the caller held
MockDeliver ==
    /\ DeliverCall
    /\ page' = IF call.op \in {"GetPlaylistTracks", "NextPage"} /\ result'.err = NoError
               THEN result'.value ELSE page
    /\ lastAdded' = IF call.op = "AddTracksToLibrary" /\ result'.err = NoError
                    THEN call.ids ELSE lastAdded
    /\ UNCHANGED <<library, other>>

NextMock ==
    \/ \E ids \in IDLists : UserHasTracks(ids)
    \/ \E ids \in IDLists : AddTracksToLibrary(ids)
    \/ \E ids \in IDLists : RemoveTracksFromLibrary(ids)
    \/ \E limit \in PageLimits : GetPlaylistTracks(limit)
    \/ NextPage
    \/ MockAttempt
    \/ Tick
    \/ Wake
    \/ Cancel
    \/ MockDeliver
    \/ Finish

SpecMock == InitBuilt /\ [][NextMock]_vars

-----------------------------------------------------------------------------
(* Two calls at a time on one Client: the variables of a call are those of
   the goroutine that runs, the other goroutine's are parked *)

\* what one call in progress holds
Locals ==
    [pc |-> pc, call |-> call, ctxDone |-> ctxDone, reqBody |-> reqBody,
     wire |-> wire, resp |-> resp, sleepDur |-> sleepDur, slept |-> slept,
     result |-> result]

\* The scheduler runs the other goroutine.
Yield ==
    /\ other' = Locals
    /\ pc' = other.pc
    /\ call' = other.call
    /\ ctxDone' = other.ctxDone
    /\ reqBody' = other.reqBody
    /\ wire' = other.wire
    /\ resp' = other.resp
    /\ sleepDur' = other.sleepDur
    /\ slept' = other.slept
    /\ result' = other.result
    /\ UNCHANGED <<httpTransport, client, imgVars, page, library, lastAdded>>

\* A second passes, for every time.Sleep in progress.
TickAll ==
    /\ (pc = "sleep" /\ slept < MaxSleep) \/ (other.pc = "sleep" /\ other.slept < MaxSleep)
    /\ slept' = IF pc = "sleep" /\ slept < MaxSleep THEN slept + 1 ELSE slept
    /\ other' = IF other.pc = "sleep" /\ other.slept < MaxSleep
                THEN [other EXCEPT !.slept = other.slept + 1] ELSE other
    /\ UNCHANGED <<httpTransport, client, pc, call, ctxDone, reqBody, wire,
                   resp, sleepDur, result, imgVars, page, library, lastAdded>>

\* what the server answers to the attempts of the two calls
FewResponses ==
    { [status |-> 200, header |-> <<>>, body |-> b, readErr |-> FALSE] :
         b \in {OKBody, BoolsBody(<<TRUE>>)} }
    \cup { [status |-> StatusTooManyRequests, header |-> h, body |-> EmptyBody,
             readErr |-> FALSE] : h \in {<<"0">>, <<"3">>} }
    \cup { [status |-> 500, header |-> <<>>, body |-> EnvelopeBody, readErr |-> FALSE] }

\* an attempt of the call that runs
AttemptOfTwo == AttemptWith(FewResponses) /\ UNCHANGED aux

NextTwo ==
    \/ UserHasTracks(IDsOf(1))
    \/ \E opt \in ReorderOptions : ReorderPlaylistTracks(opt)
    \/ AttemptOfTwo
    \/ TickAll
    \/ Wake
    \/ Deliver
    \/ Finish
    \/ Yield

SpecTwo == InitBuilt /\ [][NextTwo]_vars

-----------------------------------------------------------------------------
(* Vocabulary of the properties *)

\* h is a Retry-After value in delay-seconds form: one or more decimal digits
IsDelaySeconds(h) == h # <<>> /\ \A i \in 1..Len(h) : IsDigit(h[i])

RECURSIVE StripZeros(_)
StripZeros(h) == IF Len(h) > 1 /\ Head(h) = "0" THEN StripZeros(Tail(h)) ELSE h

RECURSIVE DigitsLeq(_, _)
\* a <= b for two digit strings of the same length
DigitsLeq(a, b) ==
    IF a = <<>> THEN TRUE
    ELSE IF DigitVal(Head(a)) # DigitVal(Head(b)) THEN DigitVal(Head(a)) < DigitVal(Head(b))
    ELSE DigitsLeq(Tail(a), Tail(b))

\* the number written by the digits h is at most 2^31 - 1
FitsInt32(h) ==
    LET z == StripZeros(h)
        m == Itoa(MaxInt32)
    IN  Len(z) < Len(m) \/ (Len(z) = Len(m) /\ DigitsLeq(z, m))

RECURSIVE SecondsOf(_)
\* the number written by the digits h (for h that fits 32 bits)
SecondsOf(h) == IF h = <<>> THEN 0
                ELSE SecondsOf(SubSeq(h, 1, Len(h) - 1)) * 10 + DigitVal(h[Len(h)])

\* at least the number of seconds h names have passed; a number beyond
\* 32 bits is more than any wait the model follows
PassedAtLeast(passed, h) == FitsInt32(h) /\ passed >= SecondsOf(h)

\* h names a non-negative integer: digits, with or without a plus sign
IsNonNegativeInteger(h) ==
    \/ IsDelaySeconds(h)
    \/ (h # <<>> /\ Head(h) = "+" /\ IsDelaySeconds(Tail(h)))

\* the step in which the wait ends and the request is about to be resubmitted
Resubmits == pc = "sleep" /\ pc' = "roundtrip"

LibraryOps == { "UserHasTracks", "UserHasAlbums", "AddTracksToLibrary",
                "RemoveTracksFromLibrary", "AddAlbumsToLibrary",
                "RemoveAlbumsFromLibrary" }

\* the call has returned after a response that is neither 2xx nor 429
FailedResponse ==
    /\ pc = "done"
    /\ resp.status # 0
    /\ ~IsSuccess(resp.status)
    /\ resp.status # StatusTooManyRequests

-----------------------------------------------------------------------------
(* C1 *)

\* C1, as claimed: after a 429 whose Retry-After is a valid delay of N seconds,
\* the request is resubmitted only once at least N seconds have passed since
\* the response came.
C1_WaitsRetryAfter ==
    [][(Resubmits /\ IsDelaySeconds(resp.header))
          => PassedAtLeast(slept, resp.header)]_vars

\* C1, amended: the same for every N that fits a signed 32-bit integer
\* (N <= 2147483647); a larger N does not parse and the wait is the fallback.
C1_WaitsRetryAfterInt32 ==
    [][(Resubmits /\ IsDelaySeconds(resp.header) /\ FitsInt32(resp.header))
          => slept >= SecondsOf(resp.header)]_vars

\* A wait of 3 seconds asked by Retry-After: 3 has lasted 3 seconds, and the
\* resubmission is the next step of the call.
C1_Witness ==
    /\ pc = "sleep"
    /\ resp.status = StatusTooManyRequests
    /\ resp.header = <<"3">>
    /\ slept = 3
    /\ Len(wire) = 1

(* C2 *)

\* C2: every request the retry transport puts on the wire for one call is the
\* same as the first: method, URL, headers and the complete body.
C2_ResubmitsSameRequest ==
    \A i \in 1..Len(wire) : wire[i] = wire[1]

(* C3 *)

\* C3: when the Retry-After of a 429 is absent, non-numeric or not a
\* non-negative integer, the wait is exactly the fallback of 5 seconds.
C3_FallbackUnlessNonNegative ==
    (pc = "sleep" /\ ~IsNonNegativeInteger(resp.header))
        => sleepDur = defaultRetryDuration

(* C4 *)

\* C4: once the context is cancelled during the wait after a 429, the wait
\* ends at that moment: no time passes with the call still waiting.
C4_CancelAbortsWait ==
    [][(pc = "sleep" /\ ctxDone) => ~(pc' = "sleep" /\ slept' > slept)]_vars

(* C5 *)

C7_MessageNeverEmpty ==
    (pc = "done" /\ resp.status # 0 /\ ~IsSuccess(resp.status))
        => result.err.type # "nil" /\ Len(result.err.msg) > 0

\* An envelope with an empty message has been decoded and returned.
C7_Witness ==
    /\ pc = "done"
    /\ resp.body = EmptyMessageBody
    /\ result.err.type = "Error"
    /\ result.err.msg = EmptyErrorMessage(resp.status)

(* C8 *)

\* C8: for a non-2xx response with an empty body, the message of the error
\* holds the status code in decimal and the reason phrase of that code; for
\* 403, it holds "403" and "Forbidden".
C8_EmptyBodyMessage ==
    (pc = "done" /\ resp.status # 0 /\ ~IsSuccess(resp.status)
       /\ ~resp.readErr /\ resp.body.raw = <<>>)
        => /\ Contains(result.err.msg, Itoa(resp.status))
           /\ Contains(result.err.msg, StatusText(resp.status))
           /\ resp.status = 403 =>
                 /\ Contains(result.err.msg, <<"4", "0", "3">>)
                 /\ Contains(result.err.msg, <<"F", "o", "r", "b", "i", "d", "d", "e", "n">>)

\* A 403 with an empty body has been returned.
C8_Witness ==
    /\ pc = "done"
    /\ resp.status = 403
    /\ resp.body = EmptyBody
    /\ ~resp.readErr
    /\ result.returned

(* C9 *)

C9_WitnessRefused ==
    /\ call.op = "UserHasAlbums"
    /\ Len(call.ids) = 51
    /\ pc = "done"
    /\ result.err = ErrorString(ErrContainsCount)

(* C10 *)

\* C10: Token fails with the "not backed by oauth2" error only when the
\* client's transport is not token-based, whatever options New was given.
C10_TokenWhenTokenBased ==
    (pc = "done" /\ call.op = "Token" /\ TokenBased(httpTransport))
        => result.err # ErrorString(ErrNotOAuth2)

(* C14 *)

BatchReadOps == { "GetArtists", "UserHasTracks", "UserHasAlbums" }

\* the array the remote answered a batch call with
RemoteArray(op, doc) ==
    IF op = "GetArtists" THEN Elems(Member(doc, "artists")) ELSE Elems(doc)

LoopStep ==
    /\ (pc = "roundtrip" /\ HasRetry(httpTransport) /\ wire' # wire) =>
          /\ Len(wire') = Len(wire) + 1
          /\ pc' \in {"sleep", "decode", "done"}
          /\ pc' = "sleep" <=> resp'.status = StatusTooManyRequests
          /\ pc' = "decode" => resp' \in ServerResponses
          /\ pc' = "done" => /\ result'.err.type = "transport"
                             /\ resp' = NoResp
    /\ (pc = "decode" /\ pc' = "done") =>
          /\ result' = CallResult(call, resp)
          /\ wire' = wire
    /\ pc \in {"decode", "done", "crashed"} => Len(wire') <= Len(wire)
    /\ (pc = "sleep" /\ pc' = "roundtrip") => wire' = wire

\* C16: with a retryTransport in the chain, an attempt is followed by a wait
\* and another attempt exactly when it was answered 429; any other response
\* leaves the loop for the decoder as it came, a transport error ends the
\* call with that error, and after either no further attempt is made. The
\* loop keeps no count: whenever it goes round, the next attempt is made.
C16_LoopEndsAtFirstFinalOutcome ==
    /\ [][LoopStep]_vars
    /\ []((pc = "roundtrip" /\ Len(wire) < MaxAttempts) => ENABLED Attempt)

\* MaxAttempts attempts in a row were answered 429 and the loop is waiting
\* to go round once more.
C16_Witness ==
    /\ pc = "sleep"
    /\ Len(wire) = MaxAttempts
    /\ resp.status = StatusTooManyRequests
    /\ HasRetry(httpTransport)

(* C18 *)

\* C18 as stated: New leaves the Transport of the caller's HTTP client as it
\* was.
C18_NewLeavesHTTPClient ==
    [][ (~client.built /\ client'.built) => httpTransport' = httpTransport ]_vars

(* C19 *)

\* C19 as stated: NewReleases returns a page or an error whenever the
\* response is 2xx with a JSON object as its body; it never panics.
C19_NewReleasesReturns ==
    (call.op = "NewReleases" /\ pc \notin {"idle", "roundtrip", "sleep", "decode"}
        /\ IsSuccess(resp.status) /\ resp.body.doc.t = "object")
        => /\ pc = "done"
           /\ result.returned
           /\ result.err.type # "panic"

(* C17 *)

\* C17: the goroutine of SetPlaylistImage ends in every execution, whether
\* the body is read to its end, reading the image fails, or the round trip
\* ends before the body has been read; and when it closes the write end
\* without a Write having failed, it has written the whole base64 text of
\* the image, the final padded group included.
C17_EncoderTerminates ==
    /\ (enc.pc = "copy") ~> (enc.pc = "done")
    /\ [](pipe.wclosed => /\ enc.pc = "done"
                          /\ ~enc.wfail => enc.written = Base64Encode(enc.img))

\* The round trip ended before the body was read: the goroutine's Write
\* failed and the goroutine has ended.
C17_Witness ==
    /\ call.op = "SetPlaylistImage"
    /\ enc.pc = "done"
    /\ enc.wfail
    /\ pipe.rclosed
    /\ pipe.wclosed
    /\ enc.written # Base64Encode(enc.img)

\* The body was read to its end, padding included, before the write end
\* was closed.
C17_WitnessReadToEnd ==
    /\ call.op = "SetPlaylistImage"
    /\ Len(enc.img) = 4
    /\ enc.pc = "done"
    /\ ~enc.wfail
    /\ pc = "roundtrip"
    /\ reqBody.data = Base64Encode(enc.img)

(* C11 *)

\* C11: NextPage on a Page without a next endpoint returns ErrNoMorePages at
\* once: no request is built or sent, and the caller's Page stays as it was.
C11_NoMorePages ==
    [][ (pc = "idle" /\ call'.op = "NextPage" /\ page.Next = <<>>) =>
            /\ pc' = "done"
            /\ result'.returned
            /\ result'.err = ErrorString(ErrNoMorePages)
            /\ wire' = <<>>
            /\ reqBody' = NoBody
            /\ page' = page ]_vars

\* NextPage on the last page of the playlist has returned ErrNoMorePages.
C11_Witness ==
    /\ pc = "done"
    /\ call.op = "NextPage"
    /\ result.err = ErrorString(ErrNoMorePages)
    /\ wire = <<>>
    /\ page.held
    /\ page.Next = <<>>
    /\ page.Offset > 0
    /\ page.Items # <<>>

(* C12 *)

C13_AddThenHas ==
    (pc = "done" /\ call.op = "UserHasTracks" /\ result.err = NoError
        /\ lastAdded # <<>> /\ call.ids = lastAdded) =>
        /\ Len(call.ids) \in 1..LibraryMaxIDs
        /\ Len(result.value) = Len(call.ids)
        /\ \A i \in 1..Len(call.ids) : result.value[i] = TRUE

\* 50 tracks were added, and UserHasTracks has answered for the same 50.
C13_Witness ==
    /\ pc = "done"
    /\ call.op = "UserHasTracks"
    /\ Len(call.ids) = LibraryMaxIDs
    /\ call.ids = lastAdded
    /\ result.err = NoError
    /\ Len(result.value) = LibraryMaxIDs
    /\ \A i \in 1..LibraryMaxIDs : result.value[i] = TRUE

(* C15 *)

\* what call l (the variables of one call) has sent, waits for and has
\* returned follows from its own arguments and its own responses
OwnOutcome(l) ==
    /\ \A i \in 1..Len(l.wire) :
          /\ l.wire[i].method = l.call.method
          /\ l.wire[i].path = l.call.path
          /\ l.wire[i].query = l.call.query
          /\ l.wire[i].contentType = l.call.contentType
    /\ l.wire # <<>> => l.wire[1].body = l.reqBody.data
    /\ l.pc = "sleep" => /\ l.resp.status = StatusTooManyRequests
                         /\ l.sleepDur = retryDuration(l.resp.header)
                         /\ l.slept <= MaxSleep
    /\ (l.pc = "done" /\ l.resp.status # 0) => l.result = CallResult(l.call, l.resp)
    /\ (l.pc = "done" /\ l.resp.status = 0) => l.result.err.type = "transport"

\* a step changes the parked call only by running it or by letting its
\* wait go on for a second, and never the Client
OwnStep ==
    /\ client' = client
    /\ httpTransport' = httpTransport
    /\ other' # other =>
          \/ other' = Locals
          \/ other.pc = "sleep" /\ other' = [other EXCEPT !.slept = other.slept + 1]

\* C15: two calls in progress on one Client share nothing that changes. What
\* each has sent, waits for and returns follows from its own arguments and
\* responses under every interleaving, and while one call waits after a 429
\* the other's attempt, and the end of the other's own wait, are not held up.
C15_CallsIndependent ==
    /\ [][OwnStep]_vars
    /\ [](OwnOutcome(Locals) /\ OwnOutcome(other))
    /\ []((other.pc = "sleep" /\ pc = "roundtrip" /\ Len(wire) < MaxAttempts)
             => ENABLED AttemptOfTwo)
    /\ []((other.pc = "sleep" /\ pc = "sleep" /\ slept >= sleepDur) => ENABLED Wake)

\* One call has returned from its first attempt while the other call, which
\* waits after a 429, has still a second to wait.
C15_Witness ==
    /\ other.pc = "sleep"
    /\ other.slept > 0
    /\ other.slept < other.sleepDur
    /\ pc = "done"
    /\ Len(wire) = 1
    /\ result.err = NoError
    /\ call.op # other.call.op

=============================================================================
